---- MODULE Spec2Model ----
(***************************************************************************)
(* A model of log.c (src/src/log.c, src/src/log.h): the global state L,    *)
(* the setters, the callback registry, level_strings / log_level_string    *)
(* and the dispatcher log_log executed step by step by caller threads.     *)
(***************************************************************************)
EXTENDS Integers, Sequences, FiniteSets, TLC

(* ------------------------------------------------------------------ *)
(* Program constants                                                   *)
(* ------------------------------------------------------------------ *)
MAX_CALLBACKS == 32

LOG_TRACE == 0
LOG_DEBUG == 1
LOG_INFO  == 2
LOG_WARN  == 3
LOG_ERROR == 4
LOG_FATAL == 5

NULL == "NULL"

\* the six levels of the enumeration
Levels == LOG_TRACE..LOG_FATAL

\* static const char *level_strings[], indexed from 0
level_strings ==
  [n \in 0..5 |-> <<"TRACE", "DEBUG", "INFO", "WARN", "ERROR", "FATAL">>[n + 1]]

\* sizeof(level_strings)/sizeof(level_strings[0])
NumLevelStrings == Cardinality(DOMAIN level_strings)

(* ------------------------------------------------------------------ *)
(* Bounds of the model                                                 *)
(* ------------------------------------------------------------------ *)
\* registrations made by the sequential and the concurrent scenarios
MaxSinks == 2
\* log_log calls started in the concurrent scenario
MaxCalls == 3
\* arguments of log_level_string range over -LevelRange..LevelRange
LevelRange == 100
\* registrations whose level is drawn freely in the fill scenario
VaryAdds == 1
\* log_add_callback calls with a NULL callback in the fill scenario
MaxNullAdds == 1
\* log_add_callback calls made after the registry is full
MaxExtraAdds == 2

(* ------------------------------------------------------------------ *)
(* Input sets                                                          *)
(* ------------------------------------------------------------------ *)
Threads == {"t1", "t2"}
MainThread == "t1"

\* levels passed to log_log: the enumeration and one value on each side
LogLevels == (LOG_TRACE - 1)..(LOG_FATAL + 1)

\* the built-in renderers, which index level_strings with ev->level
BuiltIn == {"stdout_callback", "file_callback"}
\* caller-supplied capturing sinks
UserFns == {"cb1"}

\* lock hooks: one that only counts, one that locks a mutex
Hooks == {"count_hook", "mutex_hook"}

VARIABLES
  L,        \* the global state: udata, lock, level, quiet, callbacks
  pc,       \* per thread: position inside log_log
  ev,       \* per thread: the log_Event of the call in progress
  idx,      \* per thread: the loop variable i of log_log
  trace,    \* per thread: what the call in progress has done so far
  owner,    \* the thread holding the mutex of mutex_hook, or NULL
  acqs,     \* counter of count_hook: invocations with lock = true
  rels,     \* counter of count_hook: invocations with lock = false
  ret,      \* return value of the last log_add_callback / log_add_fp
  crashed,  \* the process died on a wild table read
  hist,     \* bookkeeping of the calling scenario
  str,      \* argument and result of the last log_level_string call
  stack,    \* per thread: the suspended log_log calls below the current one
  now,      \* the wall clock read by time()
  tmbuf,    \* the static struct tm that localtime() fills and returns
  reg       \* per thread: arguments and result of its log_add_callback call

vars == <<L, pc, ev, idx, trace, owner, acqs, rels, ret, crashed, hist, str,
          stack, now, tmbuf, reg>>

(* ------------------------------------------------------------------ *)
(* Data                                                                *)
(* ------------------------------------------------------------------ *)
\* Callback { fn, udata, level }
Callback(fn, udata, level) == [fn |-> fn, udata |-> udata, level |-> level]

\* a slot of the zero-initialised static array
EmptySlot == Callback(NULL, NULL, 0)

Slots == 0..(MAX_CALLBACKS - 1)

\* static struct { udata, lock, level, quiet, callbacks[MAX_CALLBACKS] } L
L0 == [udata |-> NULL, lock |-> NULL, level |-> 0, quiet |-> FALSE,
       callbacks |-> [s \in Slots |-> EmptySlot]]

\* log_Event ev = {0}; ev.level = level  (time = 0 is the NULL pointer)
Event(level) == [level |-> level, time |-> 0, udata |-> NULL]

Ev(k, n, s) == [k |-> k, n |-> n, s |-> s]

Occupied(cbs) == {s \in Slots : cbs[s].fn # NULL}

\* number of events of kind k with argument n in a trace
Count(tr, k, n) == Cardinality({p \in DOMAIN tr : tr[p].k = k /\ tr[p].n = n})

CountKind(tr, k) == Cardinality({p \in DOMAIN tr : tr[p].k = k})

(* ------------------------------------------------------------------ *)
(* log_level_string                                                    *)
(* ------------------------------------------------------------------ *)
\* what a read of level_strings[n] yields: the entry, or whatever lies
\* outside the array
TableAt(n) == IF n \in DOMAIN level_strings THEN level_strings[n] ELSE "<wild>"

\* variant without the lower bound test
log_level_string_nolower(level) ==
  IF level >= NumLevelStrings
    THEN [name |-> "UNKNOWN", read |-> {}]
    ELSE [name |-> TableAt(level), read |-> {level}]

\* the name returned and the set of table indices read
log_level_string(level) ==
  IF level < 0 \/ level >= NumLevelStrings
    THEN [name |-> "UNKNOWN", read |-> {}]
    ELSE [name |-> TableAt(level), read |-> {level}]

\* a caller stores the result of log_level_string(level)
LevelString(level) ==
  /\ str' = [arg |-> level, ret |-> log_level_string(level).name,
             read |-> log_level_string(level).read]
  /\ UNCHANGED <<L, pc, ev, idx, trace, owner, acqs, rels, ret, crashed, hist,
               stack, now, tmbuf, reg>>

(* ------------------------------------------------------------------ *)
(* Setters and registration                                            *)
(* ------------------------------------------------------------------ *)
AllIdle == \A t \in Threads : pc[t] = "idle"

log_set_lock(fn, udata) ==
  /\ ~crashed
  /\ L' = [L EXCEPT !.lock = fn, !.udata = udata]
  /\ hist' = [hist EXCEPT !.op = "log_set_lock"]
  /\ UNCHANGED <<pc, ev, idx, trace, owner, acqs, rels, ret, crashed, str,
               stack, now, tmbuf, reg>>

\* variant that takes the lock hook around the write
log_set_level_locked(level) ==
  /\ ~crashed
  /\ L' = [L EXCEPT !.level = level]
  /\ hist' = [hist EXCEPT !.op = "log_set_level"]
  /\ owner' = IF L.lock = "mutex_hook" THEN MainThread ELSE owner
  /\ UNCHANGED <<pc, ev, idx, trace, acqs, rels, ret, crashed, str,
               stack, now, tmbuf, reg>>

log_set_level(level) ==
  /\ ~crashed
  /\ L' = [L EXCEPT !.level = level]
  /\ hist' = [hist EXCEPT !.op = "log_set_level"]
  /\ UNCHANGED <<pc, ev, idx, trace, owner, acqs, rels, ret, crashed, str,
               stack, now, tmbuf, reg>>

log_set_quiet(enable) ==
  /\ ~crashed
  /\ L' = [L EXCEPT !.quiet = enable]
  /\ hist' = [hist EXCEPT !.op = "log_set_quiet"]
  /\ UNCHANGED <<pc, ev, idx, trace, owner, acqs, rels, ret, crashed, str,
               stack, now, tmbuf, reg>>

\* variant of the scan's test that also looks at the stored user data
FreeSlots_byudata(cbs) ==
  {s \in Slots : cbs[s].fn = NULL /\ cbs[s].udata = NULL}

\* the slots the scan of log_add_callback finds free
FreeSlots(cbs) == {s \in Slots : cbs[s].fn = NULL}

Min(S) == CHOOSE m \in S : \A n \in S : m <= n

Max(S) == CHOOSE m \in S : \A n \in S : m >= n

\* variant of the scan that runs from the last slot down
FirstFree_last(cbs) == Max(FreeSlots(cbs))

\* the slot at which the scan from index 0 stops
FirstFree(cbs) == Min(FreeSlots(cbs))

\* variant of the store that also writes the slots below i
StoreAt_clobber(cbs, i, cb) == [s \in Slots |-> IF s <= i THEN cb ELSE cbs[s]]

\* L.callbacks[i] = (Callback){fn, udata, level}
StoreAt(cbs, i, cb) == [cbs EXCEPT ![i] = cb]

\* variant whose scan stops one slot early
AddResult_short(cbs, fn, udata, level) ==
  IF FreeSlots(cbs) \ {MAX_CALLBACKS - 1} # {}
    THEN [cbs |-> [cbs EXCEPT ![Min(FreeSlots(cbs))] = Callback(fn, udata, level)],
          ret |-> 0]
    ELSE [cbs |-> cbs, ret |-> -1]

\* registry and return value of log_add_callback(fn, udata, level)
AddResult(cbs, fn, udata, level) ==
  IF FreeSlots(cbs) # {}
    THEN [cbs |-> StoreAt(cbs, FirstFree(cbs), Callback(fn, udata, level)),
          ret |-> 0]
    ELSE [cbs |-> cbs, ret |-> -1]

log_add_callback(fn, udata, level) ==
  /\ ~crashed
  /\ L' = [L EXCEPT !.callbacks = AddResult(L.callbacks, fn, udata, level).cbs]
  /\ ret' = AddResult(L.callbacks, fn, udata, level).ret
  /\ hist' = [hist EXCEPT
       !.nnull = IF fn = NULL THEN @ + 1 ELSE @,
       !.nreal = IF fn # NULL THEN @ + 1 ELSE @,
       !.op = "log_add_callback",
       !.arg = Callback(fn, udata, level),
       !.reg0 = IF FreeSlots(L.callbacks) # {}
                  THEN AddResult(L.callbacks, fn, udata, level).cbs ELSE @]
  /\ UNCHANGED <<pc, ev, idx, trace, owner, acqs, rels, crashed, str,
               stack, now, tmbuf, reg>>

log_add_fp(fp, level) == log_add_callback("file_callback", fp, level)

(* ------------------------------------------------------------------ *)
(* lock / unlock and the hooks                                         *)
(* ------------------------------------------------------------------ *)
\* the context pointers handed to log_set_lock, numbered for the trace
CtxId(udata) ==
  CASE udata = NULL -> 0
    [] udata = "mtx" -> 1
    [] udata = "cnt" -> 2
    [] OTHER -> 3

\* the hook and context the call of thread t acquired, NULL if none
Held(t) ==
  IF trace[t] # <<>> /\ trace[t][1].k = "acq"
    THEN [fn |-> trace[t][1].s, ctx |-> trace[t][1].n]
    ELSE [fn |-> NULL, ctx |-> 0]

\* variant of unlock's reads that reuses what lock() read
ReleaseTarget_cached(t) == Held(t)

\* the reads of L.lock and L.udata made by unlock()
ReleaseTarget(t) == [fn |-> L.lock, ctx |-> CtxId(L.udata)]

\* variant for a mutex that never blocks
CanAcquire_always(fn) == TRUE

\* a thread can return from hook(true, udata) unless the mutex is held
CanAcquire(fn) == fn = "mutex_hook" => owner = NULL

\* variants that never call the hook
lock_skip(t) == UNCHANGED <<owner, acqs, rels, trace>>

unlock_skip(t) == UNCHANGED <<owner, acqs, rels, trace>>

\* lock(): if (L.lock) L.lock(true, L.udata)
lock(t) ==
  IF L.lock # NULL
    THEN /\ CanAcquire(L.lock)
         /\ owner' = IF L.lock = "mutex_hook" THEN t ELSE owner
         /\ acqs' = IF L.lock = "count_hook" THEN acqs + 1 ELSE acqs
         /\ trace' = [trace EXCEPT ![t] = Append(@, Ev("acq", CtxId(L.udata), L.lock))]
         /\ rels' = rels
    ELSE UNCHANGED <<owner, acqs, rels, trace>>

\* unlock(): if (L.lock) L.lock(false, L.udata)
unlock(t) ==
  LET h == ReleaseTarget(t) IN
  IF h.fn # NULL
    THEN /\ owner' = IF h.fn = "mutex_hook" THEN NULL ELSE owner
         /\ rels' = IF h.fn = "count_hook" THEN rels + 1 ELSE rels
         /\ trace' = [trace EXCEPT ![t] = Append(@, Ev("rel", h.ctx, h.fn))]
         /\ acqs' = acqs
    ELSE UNCHANGED <<owner, acqs, rels, trace>>

(* ------------------------------------------------------------------ *)
(* Renderers                                                           *)
(* ------------------------------------------------------------------ *)
\* variant with a strict comparison
AtOrAbove_strict(level, min) == level > min

\* level >= L.level, level >= cb->level
AtOrAbove(level, min) == level >= min

\* init_event(ev, udata): the timestamp is captured if still unset (time
\* = 1 stands for the captured struct tm), the destination is rebound
init_event(e, udata) ==
  [e EXCEPT !.time = IF @ = 0 THEN 1 ELSE @, !.udata = udata]

\* what init_event adds to the trace: the capture, when it happens
InitEvents(e) == IF e.time = 0 THEN <<Ev("time", now, "")>> ELSE <<>>

\* what running renderer fn on an event of this level can do: the built-in
\* renderers read level_strings[ev->level] (and, with LOG_USE_COLOR,
\* level_colors[ev->level]) unchecked, and a read outside the array either
\* yields some string or kills the process
Outcomes(fn, level) ==
  IF fn \in BuiltIn /\ level \notin DOMAIN level_strings
    THEN {"wild", "fault"}
    ELSE {"ok"}

\* the events of one renderer invocation; n is the slot, -1 for the
\* console, T the time the renderer finds behind ev->time
RenderEvents(fn, n, level, T) ==
  IF fn \in BuiltIn
    THEN <<Ev("cb", n, fn), Ev("sees", T, ""), Ev("tbl", level, TableAt(level))>>
    ELSE <<Ev("cb", n, fn), Ev("sees", T, "")>>

\* variant that does not start the argument list again
EnterEvents_nostart(fn, n, level, T) == RenderEvents(fn, n, level, T)

\* va_start(ev.ap, fmt); fn(&ev)
EnterEvents(fn, n, level, T) ==
  <<Ev("va_start", 0, "")>> \o RenderEvents(fn, n, level, T)

\* va_end(ev.ap), reached when the renderer returns
LeaveEvents(o) == IF o = "fault" THEN <<>> ELSE <<Ev("va_end", 0, "")>>

\* the struct tm a renderer finds behind ev->time after init_event: the
\* static buffer of localtime(), refilled from the clock by a capture
TimeSeen(e) == IF e.time = 0 THEN now ELSE tmbuf

(* ------------------------------------------------------------------ *)
(* Caller-supplied sinks that call back into the library               *)
(* ------------------------------------------------------------------ *)
\* a sink whose body calls log_set_lock with the hook named by its udata
SwapFns == {"cb_setlock"}

\* a sink whose body logs a LOG_DEBUG message for every event above
\* LOG_DEBUG
RelogFns == {"cb_relog"}

\* the context that goes with a hook
CtxOf(hook) ==
  CASE hook = "mutex_hook" -> "mtx"
    [] hook = "count_hook" -> "cnt"
    [] OTHER -> NULL

\* L after the body of sink cb has run
SinkSetsLock(cb) ==
  IF cb.fn \in SwapFns
    THEN [L EXCEPT !.lock = cb.udata, !.udata = CtxOf(cb.udata)]
    ELSE L

\* the body of sink cb calls log_log for event e
Relogs(cb, e) == cb.fn \in RelogFns /\ e.level > LOG_DEBUG

\* a suspended log_log call
Frame(e, i, tr) == [ev |-> e, idx |-> i, trace |-> tr]

(* ------------------------------------------------------------------ *)
(* log_log, one step per statement group                               *)
(* ------------------------------------------------------------------ *)
\* entry: log_Event ev = {0}; ev.level = level
LogBegin(t, level) ==
  /\ ~crashed
  /\ pc[t] = "idle"
  /\ pc' = [pc EXCEPT ![t] = "lock"]
  /\ ev' = [ev EXCEPT ![t] = Event(level)]
  /\ idx' = [idx EXCEPT ![t] = 0]
  /\ trace' = [trace EXCEPT ![t] = <<>>]
  /\ hist' = [hist EXCEPT !.op = "log_log"]
  /\ UNCHANGED <<L, owner, acqs, rels, ret, crashed, str,
               stack, now, tmbuf, reg>>

\* lock();
LogLock(t) ==
  /\ ~crashed
  /\ pc[t] = "lock"
  /\ lock(t)
  /\ pc' = [pc EXCEPT ![t] = "console"]
  /\ UNCHANGED <<L, ev, idx, ret, crashed, hist, str,
               stack, now, tmbuf, reg>>

\* if (!L.quiet && level >= L.level) { init_event; stdout_callback }
LogConsole(t) ==
  /\ ~crashed
  /\ pc[t] = "console"
  /\ IF ~L.quiet /\ AtOrAbove(ev[t].level, L.level)
       THEN \E o \in Outcomes("stdout_callback", ev[t].level) :
              /\ trace' = [trace EXCEPT ![t] =
                   @ \o <<Ev("flags", 0, "")>> \o InitEvents(ev[t])
                     \o EnterEvents("stdout_callback", -1, ev[t].level,
                                    TimeSeen(ev[t]))
                     \o LeaveEvents(o)]
              /\ ev' = [ev EXCEPT ![t] = init_event(@, "stderr")]
              /\ tmbuf' = TimeSeen(ev[t])
              /\ crashed' = (o = "fault")
              /\ pc' = [pc EXCEPT ![t] = IF o = "fault" THEN @ ELSE "loop"]
       ELSE /\ trace' = [trace EXCEPT ![t] = Append(@, Ev("flags", 0, ""))]
            /\ pc' = [pc EXCEPT ![t] = "loop"]
            /\ UNCHANGED <<ev, crashed, tmbuf>>
  /\ UNCHANGED <<L, idx, owner, acqs, rels, ret, hist, str, stack, now, reg>>

\* the accepting branch of the loop body for slot idx[t] when the body
\* of the sink calls log_log: the call in progress is suspended inside
\* cb->fn and the nested call starts with its own event
LogLoopNested(t, cb) ==
  /\ stack' = [stack EXCEPT ![t] =
       Append(@, Frame(init_event(ev[t], cb.udata), idx[t] + 1,
                       trace[t] \o <<Ev("slot", idx[t], "")>>
                         \o InitEvents(ev[t])
                         \o EnterEvents(cb.fn, idx[t], ev[t].level,
                                        TimeSeen(ev[t]))))]
  /\ tmbuf' = TimeSeen(ev[t])
  /\ ev' = [ev EXCEPT ![t] = Event(LOG_DEBUG)]
  /\ idx' = [idx EXCEPT ![t] = 0]
  /\ trace' = [trace EXCEPT ![t] = <<>>]
  /\ pc' = [pc EXCEPT ![t] = "lock"]
  /\ UNCHANGED <<L, crashed>>

\* the accepting branch of the loop body for slot idx[t] otherwise
LogLoopInvoke(t, cb) ==
  \E o \in Outcomes(cb.fn, ev[t].level) :
    /\ trace' = [trace EXCEPT ![t] =
         @ \o <<Ev("slot", idx[t], "")>> \o InitEvents(ev[t])
           \o EnterEvents(cb.fn, idx[t], ev[t].level, TimeSeen(ev[t]))
           \o LeaveEvents(o)]
    /\ ev' = [ev EXCEPT ![t] = init_event(@, cb.udata)]
    /\ tmbuf' = TimeSeen(ev[t])
    /\ crashed' = (o = "fault")
    /\ idx' = [idx EXCEPT ![t] = IF o = "fault" THEN @ ELSE @ + 1]
    /\ L' = SinkSetsLock(cb)
    /\ UNCHANGED <<pc, stack>>

\* variant of the loop condition that does not test the slot's callback
LoopContinues_nostop(cbs, i) == i < MAX_CALLBACKS

\* i < MAX_CALLBACKS && L.callbacks[i].fn
LoopContinues(cbs, i) == i < MAX_CALLBACKS /\ cbs[i].fn # NULL

\* one evaluation of the loop condition and, if it holds, one iteration
LogLoop(t) ==
  /\ ~crashed
  /\ pc[t] = "loop"
  /\ IF LoopContinues(L.callbacks, idx[t])
       THEN LET cb == L.callbacks[idx[t]] IN
            IF AtOrAbove(ev[t].level, cb.level)
              THEN IF Relogs(cb, ev[t])
                     THEN LogLoopNested(t, cb)
                     ELSE LogLoopInvoke(t, cb)
              ELSE /\ trace' = [trace EXCEPT ![t] = Append(@, Ev("slot", idx[t], ""))]
                   /\ idx' = [idx EXCEPT ![t] = @ + 1]
                   /\ UNCHANGED <<L, ev, crashed, pc, stack, tmbuf>>
       ELSE /\ pc' = [pc EXCEPT ![t] = "unlock"]
            /\ trace' = IF idx[t] < MAX_CALLBACKS
                          THEN [trace EXCEPT ![t] = Append(@, Ev("slot", idx[t], ""))]
                          ELSE trace
            /\ UNCHANGED <<L, ev, idx, crashed, stack, tmbuf>>
  /\ UNCHANGED <<owner, acqs, rels, ret, hist, str, now, reg>>

\* unlock();
LogUnlock(t) ==
  /\ ~crashed
  /\ pc[t] = "unlock"
  /\ unlock(t)
  /\ pc' = [pc EXCEPT ![t] = "ret"]
  /\ UNCHANGED <<L, ev, idx, ret, crashed, hist, str,
               stack, now, tmbuf, reg>>

\* the call returns; its event is discarded.  A nested call returns
\* into the sink that made it, which returns into the suspended call
LogReturn(t) ==
  /\ ~crashed
  /\ pc[t] = "ret"
  /\ IF stack[t] = <<>>
       THEN /\ pc' = [pc EXCEPT ![t] = "idle"]
            /\ ev' = [ev EXCEPT ![t] = Event(0)]
            /\ idx' = [idx EXCEPT ![t] = 0]
            /\ trace' = [trace EXCEPT ![t] = <<>>]
            /\ stack' = stack
       ELSE LET f == stack[t][Len(stack[t])] IN
            /\ pc' = [pc EXCEPT ![t] = "loop"]
            /\ ev' = [ev EXCEPT ![t] = f.ev]
            /\ idx' = [idx EXCEPT ![t] = f.idx]
            /\ trace' = [trace EXCEPT ![t] = f.trace \o LeaveEvents("ok")]
            /\ stack' = [stack EXCEPT ![t] = SubSeq(@, 1, Len(@) - 1)]
  /\ UNCHANGED <<L, owner, acqs, rels, ret, crashed, hist, str, now, tmbuf, reg>>

LogStep(t) ==
  \/ LogLock(t)
  \/ LogConsole(t)
  \/ LogLoop(t)
  \/ LogUnlock(t)
  \/ LogReturn(t)

(* ------------------------------------------------------------------ *)
(* Initial state                                                       *)
(* ------------------------------------------------------------------ *)
Hist0 == [nnull |-> 0, nreal |-> 0, phase |-> "setup", reg0 |-> L0.callbacks,
          op |-> "none", arg |-> EmptySlot]

\* no log_add_callback call made yet by a thread
Reg0 == [fn |-> NULL, udata |-> NULL, level |-> 0, ret |-> 0, ok |-> 0]

Init ==
  /\ L = L0
  /\ pc = [t \in Threads |-> "idle"]
  /\ ev = [t \in Threads |-> Event(0)]
  /\ idx = [t \in Threads |-> 0]
  /\ trace = [t \in Threads |-> <<>>]
  /\ owner = NULL
  /\ acqs = 0
  /\ rels = 0
  /\ ret = 0
  /\ crashed = FALSE
  /\ hist = Hist0
  /\ str = [arg |-> 0, ret |-> "none", read |-> {}]
  /\ stack = [t \in Threads |-> <<>>]
  /\ now = 0
  /\ tmbuf = 0
  /\ reg = [t \in Threads |-> Reg0]

(* ------------------------------------------------------------------ *)
(* Spec: the public API called sequentially from one thread            *)
(* ------------------------------------------------------------------ *)
\* levels given to log_set_level
SetLevels == {LOG_TRACE, LOG_WARN, LOG_FATAL + 2}

SeqSetLock ==
  /\ AllIdle
  /\ \E fn \in {NULL, "mutex_hook"} :
       log_set_lock(fn, IF fn = NULL THEN NULL ELSE "mtx")

SeqSetLevel == AllIdle /\ \E l \in SetLevels : log_set_level(l)

SeqSetQuiet == AllIdle /\ \E b \in BOOLEAN : log_set_quiet(b)

SeqAddCallback ==
  /\ AllIdle
  /\ Cardinality(Occupied(L.callbacks)) < MaxSinks
  /\ \E fn \in UserFns, l \in Levels : log_add_callback(fn, "u1", l)

SeqAddFp ==
  /\ AllIdle
  /\ Cardinality(Occupied(L.callbacks)) < MaxSinks
  /\ \E l \in {LOG_TRACE, LOG_ERROR} : log_add_fp("fp1", l)

SeqLogBegin == AllIdle /\ \E l \in LogLevels : LogBegin(MainThread, l)

SeqLogStep == LogStep(MainThread)

Next ==
  \/ SeqSetLock
  \/ SeqSetLevel
  \/ SeqSetQuiet
  \/ SeqAddCallback
  \/ SeqAddFp
  \/ SeqLogBegin
  \/ SeqLogStep

Spec == Init /\ [][Next]_vars

(* ------------------------------------------------------------------ *)
(* SpecStr: log_level_string applied to one argument                   *)
(* ------------------------------------------------------------------ *)
StrArgs == (0 - LevelRange)..LevelRange

InitStr ==
  /\ L = L0
  /\ pc = [t \in Threads |-> "idle"]
  /\ ev = [t \in Threads |-> Event(0)]
  /\ idx = [t \in Threads |-> 0]
  /\ trace = [t \in Threads |-> <<>>]
  /\ owner = NULL
  /\ acqs = 0
  /\ rels = 0
  /\ ret = 0
  /\ crashed = FALSE
  /\ hist = Hist0
  /\ str \in [arg : StrArgs, ret : {"none"}, read : {{}}]
  /\ stack = [t \in Threads |-> <<>>]
  /\ now = 0
  /\ tmbuf = 0
  /\ reg = [t \in Threads |-> Reg0]

StrCall == str.ret = "none" /\ LevelString(str.arg)

NextStr == StrCall

SpecStr == InitStr /\ [][NextStr]_vars

(* ------------------------------------------------------------------ *)
(* SpecFill: the registry is filled from empty, then over-filled       *)
(* ------------------------------------------------------------------ *)
\* the level of the registration that follows k registered sinks
FillLevels(k) == IF k < VaryAdds THEN Levels ELSE {k % NumLevelStrings}

FillAdd ==
  /\ AllIdle
  /\ hist.nreal < MAX_CALLBACKS + MaxExtraAdds
  /\ \E fn \in UserFns, l \in FillLevels(hist.nreal) : log_add_callback(fn, "u1", l)

FillAddNull ==
  /\ AllIdle
  /\ hist.nnull < MaxNullAdds
  /\ log_add_callback(NULL, "u1", LOG_INFO)

FillLogBegin ==
  /\ AllIdle
  /\ \E l \in {LOG_DEBUG, LOG_ERROR} : LogBegin(MainThread, l)

FillLogStep == LogStep(MainThread)

NextFill ==
  \/ FillAdd
  \/ FillAddNull
  \/ FillLogBegin
  \/ FillLogStep

SpecFill == Init /\ [][NextFill]_vars

(* ------------------------------------------------------------------ *)
(* SpecConc: set-up by one thread, then concurrent log_log calls       *)
(* ------------------------------------------------------------------ *)
ConcSetLock ==
  /\ hist.phase = "setup"
  /\ L.lock = NULL
  /\ \E fn \in Hooks : log_set_lock(fn, IF fn = "mutex_hook" THEN "mtx" ELSE "cnt")

ConcAddCallback ==
  /\ hist.phase = "setup"
  /\ Cardinality(Occupied(L.callbacks)) < MaxSinks
  /\ \E fn \in UserFns, l \in {LOG_INFO, LOG_ERROR} : log_add_callback(fn, "u1", l)

\* the threads are started: the registry of this moment is remembered
ConcStart ==
  /\ hist.phase = "setup"
  /\ hist' = [hist EXCEPT !.phase = "run", !.reg0 = L.callbacks]
  /\ UNCHANGED <<L, pc, ev, idx, trace, owner, acqs, rels, ret, crashed, str,
               stack, now, tmbuf, reg>>

\* calls entered and not yet counted by the hook
Entering == Cardinality({t \in Threads : pc[t] = "lock"})

ConcLogBegin ==
  /\ hist.phase = "run"
  /\ acqs + Entering < MaxCalls
  /\ \E t \in Threads, l \in {LOG_DEBUG, LOG_ERROR, LOG_FATAL + 1} : LogBegin(t, l)

ConcLogStep == hist.phase = "run" /\ \E t \in Threads : LogStep(t)

NextConc ==
  \/ ConcSetLock
  \/ ConcAddCallback
  \/ ConcStart
  \/ ConcLogBegin
  \/ ConcLogStep

SpecConc == Init /\ [][NextConc]_vars

(* ------------------------------------------------------------------ *)
(* Observations on a log_log call                                      *)
(* ------------------------------------------------------------------ *)
\* the call of thread t is over: it returned, or the process died in it
Ended(t) == pc[t] = "ret" \/ (crashed /\ pc[t] # "idle")

\* how often the call of thread t invoked the callback of slot s
Invoked(t, s) == Count(trace[t], "cb", s)

\* how often the call of thread t invoked the console renderer
ConsoleRuns(t) == Count(trace[t], "cb", -1)

\* every occupied slot was invoked exactly as its own threshold says
SinksByThreshold(t) ==
  \A s \in Occupied(L.callbacks) :
    Invoked(t, s) = IF ev[t].level >= L.callbacks[s].level THEN 1 ELSE 0

(* ------------------------------------------------------------------ *)
(* Claims checked under Spec                                           *)
(* ------------------------------------------------------------------ *)
\* C1: in every log_log call each registered sink is invoked exactly once
\* if the call's level is >= the sink's minimum level and not at all
\* otherwise, whatever the global level, the quiet flag and the other sinks.
C1_SinkInvokedByOwnThresholdOnly ==
  \A t \in Threads : Ended(t) => SinksByThreshold(t)

\* C2 as stated: for levels a >= b of the enumeration a message at level a
\* reaches a sink with minimum b, and a message at level b does not reach
\* a sink with minimum a (which includes a = b).
C2_StrictThresholdAsStated ==
  \A t \in Threads : \A s \in Occupied(L.callbacks) :
    (Ended(t) /\ ev[t].level \in Levels /\ L.callbacks[s].level \in Levels) =>
      /\ ev[t].level >= L.callbacks[s].level => Invoked(t, s) = 1
      /\ L.callbacks[s].level >= ev[t].level => Invoked(t, s) = 0

\* C2 amended: for levels a >= b of the enumeration a message at level a
\* reaches a sink with minimum b exactly once, and for a > b a message at
\* level b does not reach a sink with minimum a.
C2_ThresholdAmended ==
  \A t \in Threads : \A s \in Occupied(L.callbacks) :
    (Ended(t) /\ ev[t].level \in Levels /\ L.callbacks[s].level \in Levels) =>
      /\ ev[t].level >= L.callbacks[s].level => Invoked(t, s) = 1
      /\ L.callbacks[s].level > ev[t].level => Invoked(t, s) = 0

\* a returned call at a level of the enumeration that reached a sink whose
\* minimum equals the level and skipped a sink with a higher minimum
C2_Witness ==
  \E t \in Threads : \E s1, s2 \in Occupied(L.callbacks) :
    /\ pc[t] = "ret"
    /\ ev[t].level \in Levels
    /\ L.callbacks[s1].level = ev[t].level /\ Invoked(t, s1) = 1
    /\ L.callbacks[s2].level > ev[t].level /\ Invoked(t, s2) = 0

\* C4: while quiet is true no log_log call invokes the console renderer
\* and every registered sink is invoked exactly as its threshold dictates.
C4_QuietSilencesConsoleOnly ==
  \A t \in Threads :
    (Ended(t) /\ L.quiet) => ConsoleRuns(t) = 0 /\ SinksByThreshold(t)

\* C5: with quiet false the console is invoked by a log call iff
\* level >= global level, and the registered sinks ignore the global level.
C5_GlobalLevelGatesConsoleOnly ==
  \A t \in Threads :
    (Ended(t) /\ ~L.quiet) =>
      /\ ConsoleRuns(t) = IF ev[t].level >= L.level THEN 1 ELSE 0
      /\ SinksByThreshold(t)

\* C7: no renderer run by log_log indexes the level tables outside 0..5,
\* whatever the level; an out-of-range level is rendered as "UNKNOWN"
\* and the process does not fault.
C7_RenderersStayInsideTable ==
  /\ ~crashed
  /\ \A t \in Threads : \A p \in DOMAIN trace[t] :
       trace[t][p].k = "tbl" =>
         /\ trace[t][p].n \in DOMAIN level_strings
         /\ trace[t][p].s = log_level_string(ev[t].level).name

\* C8: with a lock hook installed every log_log call invokes the hook
\* once with acquire = true before anything else it does and once with
\* acquire = false after everything else; no exit skips the release.
C8_AcquireFirstReleaseLast ==
  \A t \in Threads :
    (Ended(t) /\ L.lock # NULL) =>
      /\ CountKind(trace[t], "acq") = 1
      /\ CountKind(trace[t], "rel") = 1
      /\ trace[t][1].k = "acq"
      /\ trace[t][Len(trace[t])].k = "rel"

(* ------------------------------------------------------------------ *)
(* Claim checked under SpecStr                                         *)
(* ------------------------------------------------------------------ *)
\* C6: log_level_string returns "TRACE", "DEBUG", "INFO", "WARN", "ERROR",
\* "FATAL" for 0..5 and "UNKNOWN" for every other integer, and never
\* reads the name table outside indices 0..5.
C6_LevelString ==
  str.ret # "none" =>
    /\ str.arg = 0 => str.ret = "TRACE"
    /\ str.arg = 1 => str.ret = "DEBUG"
    /\ str.arg = 2 => str.ret = "INFO"
    /\ str.arg = 3 => str.ret = "WARN"
    /\ str.arg = 4 => str.ret = "ERROR"
    /\ str.arg = 5 => str.ret = "FATAL"
    /\ (str.arg < 0 \/ str.arg > 5) => str.ret = "UNKNOWN"
    /\ str.read \subseteq 0..5

\* the sentinel was returned for -1
C6_Witness == str.arg = -1 /\ str.ret = "UNKNOWN"

(* ------------------------------------------------------------------ *)
(* Claim checked under SpecFill                                        *)
(* ------------------------------------------------------------------ *)
\* C3 as stated: from an empty registry the first MAX_CALLBACKS calls of
\* log_add_callback return 0, every later call returns -1 and leaves the
\* stored entries unchanged.
C3_CapacityAsStated ==
  [][LET n == hist'.nnull + hist'.nreal IN
       hist.nnull + hist.nreal < n =>
         /\ n <= MAX_CALLBACKS => ret' = 0
         /\ n > MAX_CALLBACKS => ret' = -1 /\ L'.callbacks = L.callbacks]_vars

\* the registry is full and holds what it held when it became full, and
\* a returned log call has invoked exactly the sinks these entries select
FullAndIntact ==
  hist.nreal >= MAX_CALLBACKS =>
    /\ Occupied(L.callbacks) = Slots
    /\ L.callbacks = hist.reg0
    /\ \A t \in Threads : \A s \in Slots :
         pc[t] = "ret" =>
           Invoked(t, s) = IF ev[t].level >= hist.reg0[s].level THEN 1 ELSE 0

\* a call with a non-NULL callback among the first MAX_CALLBACKS such
\* calls returns 0 and occupies one more slot; a call of either kind made
\* after them returns -1 and leaves the registry as it was
AddStepAmended ==
  /\ (hist'.nreal = hist.nreal + 1 /\ hist.nreal < MAX_CALLBACKS) =>
       /\ ret' = 0
       /\ Cardinality(Occupied(L'.callbacks)) = hist.nreal + 1
  /\ (hist'.nreal + hist'.nnull > hist.nreal + hist.nnull
        /\ hist.nreal >= MAX_CALLBACKS) =>
       /\ ret' = -1
       /\ L'.callbacks = L.callbacks

\* C3 amended: from an empty registry the first MAX_CALLBACKS calls with
\* a non-NULL callback return 0 and fill the slots; from then on every
\* call returns -1 and leaves the MAX_CALLBACKS entries and what a log
\* call dispatches to unchanged.
C3_CapacityAmended == [][AddStepAmended]_vars /\ []FullAndIntact

\* the registry is full, a further registration has failed and a log call
\* made after it has returned
C3_Witness ==
  /\ hist.nreal = MAX_CALLBACKS + 1
  /\ ret = -1
  /\ pc[MainThread] = "ret"
  /\ \E s \in Slots : Invoked(MainThread, s) = 1

(* ------------------------------------------------------------------ *)
(* Claims checked under SpecConc                                       *)
(* ------------------------------------------------------------------ *)
\* thread t is between the acquire and the release of its call
InCS(t) == pc[t] \in {"console", "loop", "unlock"}

\* thread t has run a renderer in its call and has not released yet
Rendering(t) == InCS(t) /\ CountKind(trace[t], "cb") > 0

\* C9: with a counting hook installed before logging starts and sinks
\* pre-registered, releases never exceed acquires, the two counts are
\* equal once all concurrent log_log calls have completed, and every
\* registry entry still holds its original callback, user data and level.
C9_BalancedAndIntact ==
  (hist.phase = "run" /\ L.lock = "count_hook") =>
    /\ rels <= acqs
    /\ AllIdle => acqs = rels
    /\ L.callbacks = hist.reg0

\* both threads were inside log_log at once and all calls have completed
C9_Witness ==
  /\ hist.phase = "run" /\ L.lock = "count_hook"
  /\ AllIdle
  /\ acqs = MaxCalls /\ rels = MaxCalls
  /\ Occupied(L.callbacks) # {}

\* C10: with a mutex as hook no two threads are between acquire and
\* release at once, so the renderer invocations of one log call are
\* never interleaved with those of another.
C10_SingleCriticalSection ==
  (hist.phase = "run" /\ L.lock = "mutex_hook") =>
    /\ Cardinality({t \in Threads : InCS(t)}) <= 1
    /\ Cardinality({t \in Threads : Rendering(t)}) <= 1
    /\ \A t \in Threads : InCS(t) => owner = t

\* one thread renders inside the critical section while the other one
\* waits for the mutex
C10_Witness ==
  \E t, u \in Threads :
    /\ L.lock = "mutex_hook"
    /\ Rendering(t)
    /\ pc[u] = "lock"

(* ------------------------------------------------------------------ *)
(* Dispatch order, checked under Spec                                  *)
(* ------------------------------------------------------------------ *)
\* the positions of the renderer invocations in a trace
CbPositions(tr) == {p \in 1..Len(tr) : tr[p].k = "cb"}

\* the slots whose sink accepts the event of thread t
Accepting(t) ==
  {s \in Occupied(L.callbacks) : ev[t].level >= L.callbacks[s].level}

\* C11: within one log_log call the console renderer, if it runs, runs
\* before every sink; sinks are invoked in strictly ascending slot order;
\* no slot at or after the first unoccupied slot is ever invoked; and a
\* call that returns has invoked exactly the accepting sinks and stopped
\* its iteration at the first unoccupied slot.
C11_ConsoleFirstThenSlotOrder ==
  \A t \in Threads :
    LET tr == trace[t] IN
    /\ \A p, q \in CbPositions(tr) : p < q => tr[p].n < tr[q].n
    /\ \A p \in CbPositions(tr) :
         tr[p].n >= 0 => \A j \in 0..tr[p].n : L.callbacks[j].fn # NULL
    /\ pc[t] = "ret" =>
         /\ {tr[p].n : p \in CbPositions(tr)} \ {-1} = Accepting(t)
         /\ \A s \in FreeSlots(L.callbacks) :
              Count(tr, "slot", s) = IF s = Min(FreeSlots(L.callbacks)) THEN 1 ELSE 0

\* a returned call ran the console and the sinks of slots 0 and 1 and
\* then looked at the free slot 2
C11_Witness ==
  \E t \in Threads :
    /\ pc[t] = "ret"
    /\ ConsoleRuns(t) = 1
    /\ Invoked(t, 0) = 1
    /\ Invoked(t, 1) = 1
    /\ Count(trace[t], "slot", 2) = 1

(* ------------------------------------------------------------------ *)
(* The registry is only ever extended, checked under Spec              *)
(* ------------------------------------------------------------------ *)
\* the step is a call of log_add_callback
AddStep == hist'.op = "log_add_callback"

\* an add step that returns 0 stores its arguments at the lowest free
\* slot and changes no other slot
AddWritesLowestFree ==
  (AddStep /\ ret' = 0) =>
    /\ FreeSlots(L.callbacks) # {}
    /\ \A s \in Slots :
         L'.callbacks[s] =
           IF s = Min(FreeSlots(L.callbacks)) THEN hist'.arg ELSE L.callbacks[s]

\* a step of any operation leaves every stored entry where it is
StoredEntriesKept ==
  \A s \in Occupied(L.callbacks) : L'.callbacks[s] = L.callbacks[s]

\* C12: a log_add_callback call that returns 0 writes its (callback, user
\* data, level) triple into the lowest-index free slot and leaves every
\* other slot unchanged, and no step of log_add_callback, log_add_fp,
\* log_set_level, log_set_quiet, log_set_lock or log_log changes a slot
\* that already holds an entry.
C12_AddOnlyLowestFree ==
  [][AddWritesLowestFree /\ StoredEntriesKept]_vars

\* a second registration has gone into slot 1 behind the entry of slot
\* 0, and the hook, the level and the quiet flag have been set since
C12_Witness ==
  /\ hist.op = "log_add_callback"
  /\ ret = 0
  /\ Occupied(L.callbacks) = {0, 1}
  /\ L.callbacks[1] = hist.arg
  /\ L.callbacks[0] # hist.arg
  /\ L.lock # NULL
  /\ L.quiet

(* ------------------------------------------------------------------ *)
(* What the setters and the registration touch, checked under Spec     *)
(* ------------------------------------------------------------------ *)
\* the step does not call the installed hook: no acquire, no release
HookNotInvoked ==
  /\ owner' = owner
  /\ acqs' = acqs
  /\ rels' = rels
  /\ trace' = trace

\* C13: a log_set_level step changes only L.level, a log_set_quiet step
\* only L.quiet, a log_set_lock step only L.lock and L.udata; each leaves
\* the registry and the other fields as they were; and none of them, nor
\* a log_add_callback step, calls the lock hook.
C13_SettersWriteOwnFieldsOnly ==
  [][ /\ hist'.op = "log_set_level" =>
           HookNotInvoked /\ L' = [L EXCEPT !.level = L'.level]
      /\ hist'.op = "log_set_quiet" =>
           HookNotInvoked /\ L' = [L EXCEPT !.quiet = L'.quiet]
      /\ hist'.op = "log_set_lock" =>
           HookNotInvoked /\ L' = [L EXCEPT !.lock = L'.lock, !.udata = L'.udata]
      /\ AddStep =>
           HookNotInvoked /\ L' = [L EXCEPT !.callbacks = L'.callbacks]
    ]_vars

\* log_set_level has just run with a mutex hook installed and a sink
\* registered; the mutex is free and the level is the new one
C13_Witness ==
  /\ hist.op = "log_set_level"
  /\ L.lock = "mutex_hook"
  /\ owner = NULL
  /\ L.level = LOG_WARN
  /\ L.quiet
  /\ Occupied(L.callbacks) # {}

(* ------------------------------------------------------------------ *)
(* Shape of the registry, checked under SpecFill                       *)
(* ------------------------------------------------------------------ *)
\* C14: in every state reached by sequential API calls the occupied
\* slots form a prefix 0..k-1 of the array: no occupied slot lies above
\* an unoccupied one.
C14_OccupiedSlotsFormPrefix ==
  \A s \in Slots : \A j \in Slots :
    (L.callbacks[s].fn # NULL /\ j < s) => L.callbacks[j].fn # NULL

\* three sinks are registered, a NULL registration was made on the way
\* and a log call has gone through the three slots
C14_Witness ==
  /\ Occupied(L.callbacks) = 0..2
  /\ hist.nnull = 1
  /\ pc[MainThread] = "ret"
  /\ Count(trace[MainThread], "slot", 3) = 1

\* the step is a log_add_callback call with a NULL callback
NullAddStep == AddStep /\ hist'.arg.fn = NULL

\* the slots without a callback
NoFn(cbs) == {s \in Slots : cbs[s].fn = NULL}

\* C17: a log_add_callback call with a NULL callback returns 0 whenever
\* a slot is free and -1 only when none is; it leaves the set of occupied
\* slots as it was; and the registration made right after it is stored in
\* the slot the NULL call wrote to.
C17_NullCallbackRegistersNothing ==
  [][ /\ NullAddStep =>
           /\ ret' = IF NoFn(L.callbacks) # {} THEN 0 ELSE -1
           /\ NoFn(L'.callbacks) = NoFn(L.callbacks)
      /\ (AddStep /\ hist'.arg.fn # NULL /\ ret' = 0
            /\ hist.op = "log_add_callback" /\ hist.arg.fn = NULL) =>
           \A s \in NoFn(L.callbacks) :
             L.callbacks[s].udata # NULL => L'.callbacks[s] = hist'.arg
    ]_vars

\* a NULL registration has just returned 0 with two sinks registered: it
\* wrote its user data to slot 2, which is still unoccupied
C17_Witness ==
  /\ hist.op = "log_add_callback"
  /\ hist.arg.fn = NULL
  /\ ret = 0
  /\ Occupied(L.callbacks) = 0..1
  /\ L.callbacks[2].udata # NULL

(* ------------------------------------------------------------------ *)
(* The argument list of each renderer, checked under Spec              *)
(* ------------------------------------------------------------------ *)
\* what a renderer does while it runs
InsideRenderer == {"cb", "sees", "tbl"}

\* C16: each renderer invocation of a log_log call, console or sink, is
\* directly preceded by a va_start of its own; nothing else is done by
\* the call after a renderer before the va_end that follows it; and a
\* call that returns has made one va_start and one va_end per renderer.
C16_FreshArgumentListPerRenderer ==
  \A t \in Threads :
    LET tr == trace[t] IN
    /\ \A p \in CbPositions(tr) : p > 1 /\ tr[p - 1].k = "va_start"
    /\ \A p \in CbPositions(tr) : \A q \in (p + 1)..Len(tr) :
         tr[q].k \notin InsideRenderer =>
           \E m \in (p + 1)..q : tr[m].k = "va_end" /\
             \A j \in (p + 1)..(m - 1) : tr[j].k \in InsideRenderer \ {"cb"}
    /\ pc[t] = "ret" =>
         /\ CountKind(tr, "va_start") = CountKind(tr, "cb")
         /\ CountKind(tr, "va_end") = CountKind(tr, "cb")

\* a returned call ran the console and two sinks, with three va_start
\* and three va_end
C16_Witness ==
  \E t \in Threads :
    /\ pc[t] = "ret"
    /\ CountKind(trace[t], "cb") = 3
    /\ CountKind(trace[t], "va_start") = 3
    /\ CountKind(trace[t], "va_end") = 3

(* ------------------------------------------------------------------ *)
(* SpecRace: log_add_callback statement by statement, two threads      *)
(* ------------------------------------------------------------------ *)
\* calls of log_add_callback made by each thread
MaxRaceAdds == 2

\* entry of log_add_callback(fn, udata, level) by thread t; i = 0
AddBegin(t, fn, udata, level) ==
  /\ ~crashed
  /\ pc[t] = "idle"
  /\ pc' = [pc EXCEPT ![t] = "a_scan"]
  /\ idx' = [idx EXCEPT ![t] = 0]
  /\ reg' = [reg EXCEPT ![t] =
       [@ EXCEPT !.fn = fn, !.udata = udata, !.level = level, !.ret = 0]]
  /\ UNCHANGED <<L, ev, trace, owner, acqs, rels, ret, crashed, hist, str,
               stack, now, tmbuf>>

\* i < MAX_CALLBACKS; if (!L.callbacks[i].fn); i++
AddScan(t) ==
  /\ ~crashed
  /\ pc[t] = "a_scan"
  /\ IF idx[t] < MAX_CALLBACKS
       THEN IF L.callbacks[idx[t]].fn = NULL
              THEN pc' = [pc EXCEPT ![t] = "a_store"] /\ UNCHANGED <<idx, reg>>
              ELSE idx' = [idx EXCEPT ![t] = @ + 1] /\ UNCHANGED <<pc, reg>>
       ELSE /\ pc' = [pc EXCEPT ![t] = "a_ret"]
            /\ reg' = [reg EXCEPT ![t].ret = -1]
            /\ idx' = idx
  /\ UNCHANGED <<L, ev, trace, owner, acqs, rels, ret, crashed, hist, str,
               stack, now, tmbuf>>

\* L.callbacks[i] = (Callback){fn, udata, level}; return 0
AddStore(t) ==
  /\ ~crashed
  /\ pc[t] = "a_store"
  /\ L' = [L EXCEPT !.callbacks =
       StoreAt(@, idx[t], Callback(reg[t].fn, reg[t].udata, reg[t].level))]
  /\ reg' = [reg EXCEPT ![t].ret = 0]
  /\ pc' = [pc EXCEPT ![t] = "a_ret"]
  /\ UNCHANGED <<ev, idx, trace, owner, acqs, rels, ret, crashed, hist, str,
               stack, now, tmbuf>>

\* the caller has the result
AddReturn(t) ==
  /\ ~crashed
  /\ pc[t] = "a_ret"
  /\ pc' = [pc EXCEPT ![t] = "idle"]
  /\ idx' = [idx EXCEPT ![t] = 0]
  /\ ret' = reg[t].ret
  /\ reg' = [reg EXCEPT ![t].ok = IF reg[t].ret = 0 THEN @ + 1 ELSE @]
  /\ hist' = [hist EXCEPT !.nreal = @ + 1, !.op = "log_add_callback"]
  /\ UNCHANGED <<L, ev, trace, owner, acqs, rels, crashed, str,
               stack, now, tmbuf>>

\* each thread registers its own sink, told apart by the user data
RaceAddBegin ==
  \E t \in Threads :
    /\ reg[t].ok + (IF pc[t] = "idle" THEN 0 ELSE 1) < MaxRaceAdds
    /\ AddBegin(t, "cb1", t, LOG_INFO)

RaceAddScan == \E t \in Threads : AddScan(t)

RaceAddStore == \E t \in Threads : AddStore(t)

RaceAddReturn == \E t \in Threads : AddReturn(t)

NextRace ==
  \/ RaceAddBegin
  \/ RaceAddScan
  \/ RaceAddStore
  \/ RaceAddReturn

SpecRace == Init /\ [][NextRace]_vars

\* the registrations that have returned 0
Registered == reg["t1"].ok + reg["t2"].ok

\* C18: for every interleaving of concurrent log_add_callback calls with
\* non-NULL callbacks, once the calls have returned the number of
\* occupied slots equals the number of calls that returned 0, and each
\* such call finds its own entry in a slot of its own.
C18_NoRegistrationLost ==
  (\A t \in Threads : pc[t] = "idle") =>
    /\ Cardinality(Occupied(L.callbacks)) = Registered
    /\ \A t \in Threads :
         Cardinality({s \in Slots : L.callbacks[s].fn # NULL
                                      /\ L.callbacks[s].udata = t}) = reg[t].ok

(* ------------------------------------------------------------------ *)
(* SpecSwap: the hook is replaced while a log_log call is dispatching  *)
(* ------------------------------------------------------------------ *)
\* acquires and releases counted by the counting hook
MaxSwapCalls == 2

\* the thread that calls log_set_lock while MainThread logs
OtherThread == "t2"

\* log_set_lock(fn, udata) entered by thread t
SetLockBegin(t, fn, udata) ==
  /\ ~crashed
  /\ pc[t] = "idle"
  /\ pc' = [pc EXCEPT ![t] = "s_fn"]
  /\ reg' = [reg EXCEPT ![t] = [@ EXCEPT !.fn = fn, !.udata = udata]]
  /\ UNCHANGED <<L, ev, idx, trace, owner, acqs, rels, ret, crashed, hist, str,
               stack, now, tmbuf>>

\* L.lock = fn
SetLockStoreFn(t) ==
  /\ ~crashed
  /\ pc[t] = "s_fn"
  /\ L' = [L EXCEPT !.lock = reg[t].fn]
  /\ pc' = [pc EXCEPT ![t] = "s_udata"]
  /\ UNCHANGED <<ev, idx, trace, owner, acqs, rels, ret, crashed, hist, str,
               stack, now, tmbuf, reg>>

\* L.udata = udata
SetLockStoreUdata(t) ==
  /\ ~crashed
  /\ pc[t] = "s_udata"
  /\ L' = [L EXCEPT !.udata = reg[t].udata]
  /\ pc' = [pc EXCEPT ![t] = "idle"]
  /\ UNCHANGED <<ev, idx, trace, owner, acqs, rels, ret, crashed, hist, str,
               stack, now, tmbuf, reg>>

\* set-up: the first hook
SwapSetLock ==
  /\ hist.phase = "setup"
  /\ L.lock = NULL
  /\ \E fn \in Hooks : log_set_lock(fn, CtxOf(fn))

\* set-up: plain sinks and sinks that replace the hook, by NULL or by the
\* counting hook
SwapAddCallback ==
  /\ hist.phase = "setup"
  /\ Cardinality(Occupied(L.callbacks)) < MaxSinks
  /\ \/ \E fn \in UserFns : log_add_callback(fn, "u1", LOG_INFO)
     \/ \E fn \in SwapFns, h \in {NULL, "count_hook"} :
          log_add_callback(fn, h, LOG_INFO)

SwapStart == ConcStart

SwapLogBegin ==
  /\ hist.phase = "run"
  /\ acqs < MaxSwapCalls
  /\ rels < MaxSwapCalls
  /\ \E l \in {LOG_DEBUG, LOG_ERROR} : LogBegin(MainThread, l)

SwapLogStep == hist.phase = "run" /\ LogStep(MainThread)

\* the other thread removes the hook, or installs the counting hook
\* with its first or with a second context
SwapOtherBegin ==
  /\ hist.phase = "run"
  /\ \E h \in {<<NULL, NULL>>, <<"count_hook", "cnt">>, <<"count_hook", "cnt2">>} :
       /\ <<L.lock, L.udata>> # h
       /\ SetLockBegin(OtherThread, h[1], h[2])

SwapOtherStoreFn == SetLockStoreFn(OtherThread)

SwapOtherStoreUdata == SetLockStoreUdata(OtherThread)

NextSwap ==
  \/ SwapSetLock
  \/ SwapAddCallback
  \/ SwapStart
  \/ SwapLogBegin
  \/ SwapLogStep
  \/ SwapOtherBegin
  \/ SwapOtherStoreFn
  \/ SwapOtherStoreUdata

SpecSwap == Init /\ [][NextSwap]_vars

\* the step is the unlock() of thread t's call
ReleaseStep(t) == pc[t] = "unlock" /\ pc'[t] = "ret"

\* the hook and context installed in L
Installed == [fn |-> L.lock, ctx |-> CtxId(L.udata)]

\* the trace ends with a release to the hook and context it began with
Paired(tr) ==
  /\ Len(tr) > 1
  /\ tr[1].k = "acq"
  /\ tr[Len(tr)].k = "rel"
  /\ tr[Len(tr)].s = tr[1].s
  /\ tr[Len(tr)].n = tr[1].n

\* C19: the release of a log_log call goes to the hook and context that
\* are installed when unlock() runs, to nobody if the hook is then NULL;
\* a hook acquired by the call and no longer installed at that moment
\* gets no release from the call (a mutex stays owned, a counting hook's
\* release count stays put); acquire and release of the call pair up on
\* one hook and context exactly when those installed at the release are
\* the ones acquired.
C19_ReleaseGoesToInstalledHook ==
  [][\A t \in Threads : ReleaseStep(t) =>
       /\ L.lock = NULL =>
            trace'[t] = trace[t] /\ rels' = rels /\ owner' = owner
       /\ L.lock # NULL =>
            trace'[t] = Append(trace[t], Ev("rel", CtxId(L.udata), L.lock))
       /\ (Held(t).fn = "mutex_hook" /\ L.lock # "mutex_hook") => owner' = t
       /\ (Held(t).fn = "count_hook" /\ L.lock # "count_hook") => rels' = rels
       /\ Paired(trace'[t]) <=> (L.lock # NULL /\ Held(t) = Installed)
    ]_vars

\* a call acquired the mutex, a sink of the call installed the counting
\* hook, and the call released to the counting hook: the mutex is still
\* owned by the caller after the call
C19_Witness ==
  /\ pc[MainThread] = "ret"
  /\ Held(MainThread).fn = "mutex_hook"
  /\ CountKind(trace[MainThread], "cb") > 0
  /\ trace[MainThread][Len(trace[MainThread])] = Ev("rel", CtxId("cnt"), "count_hook")
  /\ owner = MainThread
  /\ rels = 1
  /\ acqs = 0

(* ------------------------------------------------------------------ *)
(* SpecReent: a sink calls log_log; the wall clock advances            *)
(* ------------------------------------------------------------------ *)
\* readings of the wall clock after the first
MaxClock == 1

\* log_log calls counted by the counting hook
MaxReCalls == 3

\* time(NULL) returns a later value from now on
Tick ==
  /\ ~crashed
  /\ hist.phase = "run"
  /\ now < MaxClock
  /\ now' = now + 1
  /\ UNCHANGED <<L, pc, ev, idx, trace, owner, acqs, rels, ret, crashed, hist,
               str, stack, tmbuf, reg>>

ReSetLock ==
  /\ hist.phase = "setup"
  /\ L.lock = NULL
  /\ \E fn \in Hooks : log_set_lock(fn, CtxOf(fn))

ReSetQuiet ==
  /\ hist.phase = "setup"
  /\ ~L.quiet
  /\ log_set_quiet(TRUE)

ReAddCallback ==
  /\ hist.phase = "setup"
  /\ Cardinality(Occupied(L.callbacks)) < MaxSinks
  /\ \E fn \in UserFns \cup RelogFns, l \in {LOG_TRACE, LOG_WARN} :
       log_add_callback(fn, "u1", l)

ReStart == ConcStart

ReLogBegin ==
  /\ hist.phase = "run"
  /\ acqs < MaxReCalls
  /\ \E l \in {LOG_DEBUG, LOG_ERROR} : LogBegin(MainThread, l)

ReLogStep == hist.phase = "run" /\ LogStep(MainThread)

NextReent ==
  \/ ReSetLock
  \/ ReSetQuiet
  \/ ReAddCallback
  \/ ReStart
  \/ ReLogBegin
  \/ ReLogStep
  \/ Tick

SpecReent == Init /\ [][NextReent]_vars

\* thread t is inside a log_log call made by a sink of its own call
Nested(t) == stack[t] # <<>>

\* the sinks that would call log_log for the event of thread t
Reentering(t) ==
  {s \in Slots : /\ L.callbacks[s].fn \in {"cb_relog"}
                 /\ ev[t].level >= L.callbacks[s].level
                 /\ ev[t].level > LOG_DEBUG}

\* C20: while a nested log_log call runs, the call it was made from has
\* acquired the hook and not released it, so the nested acquire is a
\* second acquire before the outer release.  With the mutex as hook the
\* nested call stays in lock() for ever: it has not acquired, the caller
\* owns the mutex and no step of the caller is possible.  With the mutex
\* as hook a call returns to its caller only if no sink that accepts its
\* event calls log_log.
C20_NestedAcquireBeforeOuterRelease ==
  \A t \in Threads :
    /\ (Nested(t) /\ L.lock # NULL) =>
         \A d \in 1..Len(stack[t]) :
           /\ stack[t][d].trace[1].k = "acq"
           /\ CountKind(stack[t][d].trace, "rel") = 0
    /\ (Nested(t) /\ L.lock = "count_hook" /\ pc[t] \in {"console", "loop", "unlock"}) =>
         acqs >= rels + 2
    /\ (Nested(t) /\ L.lock = "mutex_hook") =>
         /\ pc[t] = "lock"
         /\ trace[t] = <<>>
         /\ owner = t
         /\ ~ENABLED LogStep(t)
    /\ (pc[t] = "ret" /\ L.lock = "mutex_hook") => Reentering(t) = {}

\* the sink of slot 0 has called log_log with the mutex held by its
\* caller, and the nested call waits in lock()
C20_Witness ==
  /\ Nested(MainThread)
  /\ L.lock = "mutex_hook"
  /\ owner = MainThread
  /\ pc[MainThread] = "lock"
  /\ stack[MainThread][1].idx = 1

\* C15: within one log_log call the timestamp is captured at most once,
\* directly before the first renderer that accepts the event; every
\* renderer of the call sees the timestamp that was captured; and there
\* is no capture when no renderer accepts.
C15_TimestampCapturedOnceAndShared ==
  \A t \in Threads :
    LET tr == trace[t] IN
    /\ CountKind(tr, "time") <= 1
    /\ \A p \in 1..Len(tr) : tr[p].k = "time" =>
         /\ \A q \in 1..(p - 1) : tr[q].k # "cb"
         /\ Len(tr) >= p + 2
         /\ tr[p + 1].k = "va_start"
         /\ tr[p + 2].k = "cb"
    /\ \A p \in 1..Len(tr) : tr[p].k = "sees" =>
         \E q \in 1..(p - 1) : tr[q].k = "time" /\ tr[q].n = tr[p].n
    /\ CountKind(tr, "cb") = 0 => CountKind(tr, "time") = 0

====
